---- MODULE Spec2Model ----
(***************************************************************************)
(* Geofence attendance engine of geo-attend (lib/geofence.ts): the         *)
(* background task handler, the persisted active-event context, the        *)
(* debouncer, the idempotency key, server delivery and the offline queue.  *)
(*                                                                         *)
(* Strings are sequences of one-character strings.  JS null / undefined is *)
(* the one-element sequence Null, which no real string equals.  ISO        *)
(* timestamps are whole seconds; a null timestamp is NullIso and a string  *)
(* that Date.parse cannot read is BadIso.  AsyncStorage reads and writes   *)
(* succeed; the platform's geofencing calls and the server calls can fail. *)
(***************************************************************************)
EXTENDS Integers, Sequences, FiniteSets, Bags, TLC

\* ---------------------------------------------------------------- bounds
MaxTime == 45
TickStep == 15
MaxCoarse == 60
CoarseStep == 45
MaxSignals == 3
MaxHandled == 2
MaxQueue == 2
MaxDerived == 2

\* ------------------------------------------------------ program constants
DEBOUNCE_SEC == 30

\* ---------------------------------------------------------------- strings
Null == <<"NULL">>
NullIso == -1
BadIso == -2

Truthy(s) == s # Null /\ s # <<>>

RECURSIVE TrimStart(_)
TrimStart(s) ==
  IF s = <<>> THEN <<>>
  ELSE IF Head(s) = " " THEN TrimStart(Tail(s)) ELSE s

RECURSIVE TrimEnd(_)
TrimEnd(s) ==
  IF s = <<>> THEN <<>>
  ELSE IF s[Len(s)] = " " THEN TrimEnd(SubSeq(s, 1, Len(s) - 1)) ELSE s

Trim(s) == TrimEnd(TrimStart(s))

StartsWith(s, p) == Len(s) >= Len(p) /\ SubSeq(s, 1, Len(p)) = p

Slice(s, n) == SubSeq(s, n + 1, Len(s))

Digit(d) == <<"0", "1", "2", "3", "4", "5", "6", "7", "8", "9">>[d + 1]

RECURSIVE NumToString(_)
NumToString(n) ==
  IF n < 10 THEN <<Digit(n)>>
  ELSE NumToString(n \div 10) \o <<Digit(n % 10)>>

EventPrefix == <<"e", "v", "e", "n", "t", ":">>
StrNull == <<"n", "u", "l", "l">>
StrEnter == <<"E", "N", "T", "E", "R">>
StrExit == <<"E", "X", "I", "T">>

\* ------------------------------------------------------------------ time
\* parseUtcMs: null for a null/empty or unreadable string, else the time.
parseUtcMs(iso) ==
  IF iso = NullIso THEN NullIso
  ELSE IF iso = BadIso THEN NullIso
  ELSE iso

\* --------------------------------------------------------- idempotency key
Sha256(base) == <<"s", "h", "a", ":">> \o base

DirString(dir) == IF dir = "ENTER" THEN StrEnter ELSE StrExit

makeIdem(eventId, regionId, dir, atIso) ==
  LET slot == atIso \div DEBOUNCE_SEC
      base == eventId \o <<"|">>
              \o (IF regionId = Null THEN StrNull ELSE regionId) \o <<"|">>
              \o DirString(dir) \o <<"|">> \o NumToString(slot)
  IN Sha256(base)

\* ------------------------------------------------------------------ state
VARIABLES
  now,        \* Date.now(), seconds
  metaKey,    \* AsyncStorage "@rta.active_event_meta_v1"
  legacyKey,  \* AsyncStorage "@rta.active_event_id"
  lastKey,    \* AsyncStorage "@rta.geo.last.v1" (debounce marker)
  queue,      \* the offline queue of lib/syncQueue
  started,    \* Location.hasStartedGeofencingAsync(GEOFENCE_TASK)
  region,     \* identifier of the region registered for GEOFENCE_TASK
  ledger,     \* rows of the server's geofence_events
  stable,     \* the network has recovered for good
  log,        \* history: one entry per handler invocation
  attempts,   \* history: postToServer calls of the latest operation
  expired,    \* history: expiry was detected and no event was set since
  derived,    \* history: makeIdem calls (key derivation checks)
  disarmed,   \* history: disarm has returned and no arm was called since
  lastSet,    \* history: the latest direct call of a context setter
  inflight    \* queue operations in progress, one step per storage or server call

vars == <<now, metaKey, legacyKey, lastKey, queue, started, region, ledger,
          stable, log, attempts, expired, derived, disarmed,
          lastSet, inflight>>

E1 == <<"E", "1">>
E2 == <<"E", "2">>
BlankId == <<" ">>
PaddedE1 == <<" ">> \o E1

NoMeta == [present |-> FALSE, event_id |-> Null, end |-> NullIso]
NoLast == [present |-> FALSE, dir |-> "ENTER", at |-> 0]
NoCall == [eventId |-> Null, endUtc |-> NullIso, before |-> NoMeta]
\* a caller of the queue that has not started
IdleCall == [pc |-> "idle", n |-> 0, rec |-> Null, list |-> <<>>, cur |-> <<>>]
NoFlight == [arm |-> IdleCall, handler |-> IdleCall, enq |-> {}]

Times == {t \in 0..MaxTime : t % TickStep = 0}

\* event ids and expiry times the UI layer arms with
ArmRequests ==
  { [eventId |-> E1, endUtc |-> NullIso],
    [eventId |-> PaddedE1, endUtc |-> 30],
    [eventId |-> BlankId, endUtc |-> NullIso] }
PlainRequests ==
  { [eventId |-> E1, endUtc |-> BadIso], [eventId |-> E1, endUtc |-> 30] }
\* region identifiers the platform reports (Null: the signal has no region)
RegionIds == {Null, EventPrefix \o E1, EventPrefix \o BlankId}
\* region identifiers the UI layer registers
ArmRegionIds == {EventPrefix \o E1}
EventTypes == {"Enter", "Exit", "Other"}
KnownEventTypes == {"Enter", "Exit"}

\* results of one postToServer call: the rpc's and the fallback insert's
Outcomes ==
  { [rpc |-> "ok", ins |-> "ok"],          \* rpc applied and acknowledged
    [rpc |-> "error", ins |-> "ok"],       \* rpc refused, insert reachable
    [rpc |-> "error", ins |-> "error"],    \* both refused
    [rpc |-> "lost", ins |-> "error"],     \* rpc applied, reply lost
    [rpc |-> "throw", ins |-> "error"] }   \* the rpc call throws
OkOutcome == [rpc |-> "ok", ins |-> "ok"]
FailOutcome == [rpc |-> "error", ins |-> "error"]

\* results of the platform's geofencing calls
PlatformOk == [has |-> TRUE, stop |-> TRUE, start |-> TRUE]
PlatformResults ==
  { PlatformOk,
    [has |-> FALSE, stop |-> TRUE, start |-> TRUE],   \* hasStarted rejects
    [has |-> TRUE, stop |-> FALSE, start |-> TRUE],   \* stop rejects
    [has |-> TRUE, stop |-> TRUE, start |-> FALSE] }  \* start rejects
StopResults == {r \in PlatformResults : r.start}

\* ---------------------------------------------------- active event context
\* mutation: only the meta key is removed, the legacy key stays
clearMetaKeyOnly == [metaKey |-> NoMeta, legacyKey |-> legacyKey]

\* setActiveEventMeta(null): both keys are removed.
clearActiveEventMeta == [metaKey |-> NoMeta, legacyKey |-> Null]

\* mutation: a blank id leaves the two keys as they are
setActiveEventMetaBlankKeeps(eventId, endUtc) ==
  LET id == Trim(eventId)
  IN IF ~Truthy(id) THEN [metaKey |-> metaKey, legacyKey |-> legacyKey]
     ELSE [metaKey |-> [present |-> TRUE, event_id |-> id,
                        end |-> IF endUtc = NullIso THEN NullIso ELSE endUtc],
           legacyKey |-> id]

\* mutation: the id is stored as given, blank or not
setActiveEventMetaNoTrim(eventId, endUtc) ==
  [metaKey |-> [present |-> TRUE, event_id |-> eventId,
                end |-> IF endUtc = NullIso THEN NullIso ELSE endUtc],
   legacyKey |-> eventId]

\* setActiveEventMeta({eventId, endUtc}): the new values of the two keys.
setActiveEventMeta(eventId, endUtc) ==
  LET id == Trim(eventId)
  IN IF ~Truthy(id) THEN clearActiveEventMeta
     ELSE [metaKey |-> [present |-> TRUE, event_id |-> id,
                        end |-> IF endUtc = NullIso THEN NullIso ELSE endUtc],
           legacyKey |-> id]

\* getActiveEventMetaUnsafe(): the stored meta, NoMeta when absent or blank.
getActiveEventMetaUnsafe(mk) ==
  IF ~mk.present THEN NoMeta
  ELSE LET id == Trim(mk.event_id)
       IN IF ~Truthy(id) THEN NoMeta
          ELSE [present |-> TRUE, event_id |-> id, end |-> mk.end]

\* setActiveEventId(eventId): the new values of the two keys (eventId Null:
\* the caller passed null).
setActiveEventId(mk, eventId) ==
  LET normalized == IF Truthy(eventId) THEN Trim(eventId) ELSE <<>>
      existing == getActiveEventMetaUnsafe(mk)
  IN IF ~Truthy(normalized) THEN clearActiveEventMeta
     ELSE IF /\ existing.present
             /\ existing.event_id = normalized
             /\ existing.end # NullIso
     THEN [metaKey |-> mk, legacyKey |-> normalized]
     ELSE setActiveEventMeta(normalized, NullIso)

\* safeStopGeofencingIfStarted(): whether the task is still registered.
safeStopGeofencingIfStarted(st, plat) ==
  IF plat.has /\ st /\ plat.stop THEN FALSE ELSE st

\* mutation: an expired event is reported absent but its context is kept
getActiveEventIdNoClear(mk, lk, st, t, plat) ==
  LET meta == getActiveEventMetaUnsafe(mk)
      endMs == parseUtcMs(meta.end)
  IN IF meta.present
     THEN IF endMs # NullIso /\ t > endMs
          THEN [id |-> Null, metaKey |-> mk, legacyKey |-> lk,
                started |-> safeStopGeofencingIfStarted(st, plat),
                expired |-> TRUE]
          ELSE [id |-> meta.event_id, metaKey |-> mk, legacyKey |-> lk,
                started |-> st, expired |-> FALSE]
     ELSE LET id == IF Truthy(lk) THEN Trim(lk) ELSE <<>>
          IN [id |-> IF Truthy(id) THEN id ELSE Null,
              metaKey |-> mk, legacyKey |-> lk,
              started |-> st, expired |-> FALSE]

\* getActiveEventId(): the id it returns (Null: absent) and the store and
\* registration it leaves behind.
getActiveEventId(mk, lk, st, t, plat) ==
  LET meta == getActiveEventMetaUnsafe(mk)
      endMs == parseUtcMs(meta.end)
  IN IF meta.present
     THEN IF endMs # NullIso /\ t > endMs
          THEN [id |-> Null, metaKey |-> clearActiveEventMeta.metaKey,
                legacyKey |-> clearActiveEventMeta.legacyKey,
                started |-> safeStopGeofencingIfStarted(st, plat),
                expired |-> TRUE]
          ELSE [id |-> meta.event_id, metaKey |-> mk, legacyKey |-> lk,
                started |-> st, expired |-> FALSE]
     ELSE LET id == IF Truthy(lk) THEN Trim(lk) ELSE <<>>
          IN [id |-> IF Truthy(id) THEN id ELSE Null,
              metaKey |-> mk, legacyKey |-> lk,
              started |-> st, expired |-> FALSE]

\* ---------------------------------------------------------------- debounce
\* mutation: the elapsed time is taken in milliseconds
shouldDebounceMillis(last, dir, t) ==
  IF last.present /\ last.dir = dir /\ (t - last.at) * 1000 < DEBOUNCE_SEC
  THEN [suppress |-> TRUE, lastKey |-> last]
  ELSE [suppress |-> FALSE,
        lastKey |-> [present |-> TRUE, dir |-> dir, at |-> t]]

\* mutation: the marker's direction is not compared
shouldDebounceAnyDir(last, dir, t) ==
  IF last.present /\ (t - last.at) < DEBOUNCE_SEC
  THEN [suppress |-> TRUE, lastKey |-> last]
  ELSE [suppress |-> FALSE,
        lastKey |-> [present |-> TRUE, dir |-> dir, at |-> t]]

\* mutation: a suppressed signal moves the marker's time forward
shouldDebounceRefreshes(last, dir, t) ==
  IF last.present /\ last.dir = dir /\ (t - last.at) < DEBOUNCE_SEC
  THEN [suppress |-> TRUE,
        lastKey |-> [present |-> TRUE, dir |-> dir, at |-> t]]
  ELSE [suppress |-> FALSE,
        lastKey |-> [present |-> TRUE, dir |-> dir, at |-> t]]

\* shouldDebounce(dir): its answer and the marker it leaves.
shouldDebounce(last, dir, t) ==
  IF last.present /\ last.dir = dir /\ (t - last.at) < DEBOUNCE_SEC
  THEN [suppress |-> TRUE, lastKey |-> last]
  ELSE [suppress |-> FALSE,
        lastKey |-> [present |-> TRUE, dir |-> dir, at |-> t]]

\* ------------------------------------------------------------------ server
\* the ledger is a bag of rows
NoRows == SetToBag({})
AddRow(rows, row) == rows (+) SetToBag({row})
HasIdem(rows, idem) == \E r \in BagToSet(rows) : r.idem = idem

\* rpc('geofence_log'): upsert by idem.
RpcGeofenceLog(rows, row) ==
  IF HasIdem(rows, row.idem) THEN rows ELSE AddRow(rows, row)

\* insert into geofence_events, idem unique: refused when the idem exists.
InsertRefused(rows, row) == row.idem # Null /\ HasIdem(rows, row.idem)

\* mutation: the fallback insert leaves the idem column out
InsertRowNoIdem(p) == [rec |-> p, idem |-> Null]

\* the row the fallback insert sends for payload p
InsertRow(p) == [rec |-> p, idem |-> p.idem]

\* mutation: the key is derived again from the clock when the rpc is made
RpcRowAtDelivery(p) ==
  [rec |-> p, idem |-> makeIdem(p.event_id, p.region_id, p.dir, now)]

\* the arguments the rpc sends for payload p
RpcRow(p) == [rec |-> p, idem |-> p.idem]

\* mutation: the error of the fallback insert is not checked
postToServerInsertUnchecked(p, rows, out) ==
  IF out.rpc = "ok" THEN [ok |-> TRUE, ledger |-> RpcGeofenceLog(rows, RpcRow(p))]
  ELSE IF out.rpc = "throw" THEN [ok |-> FALSE, ledger |-> rows]
  ELSE
    LET afterRpc == IF out.rpc = "lost" THEN RpcGeofenceLog(rows, RpcRow(p))
                    ELSE rows
    IN IF out.ins = "ok" /\ ~InsertRefused(afterRpc, InsertRow(p))
       THEN [ok |-> TRUE, ledger |-> AddRow(afterRpc, InsertRow(p))]
       ELSE [ok |-> TRUE, ledger |-> afterRpc]

\* postToServer(p): whether it reports success, and the ledger afterwards.
postToServer(p, rows, out) ==
  IF out.rpc = "ok" THEN [ok |-> TRUE, ledger |-> RpcGeofenceLog(rows, RpcRow(p))]
  ELSE IF out.rpc = "throw" THEN [ok |-> FALSE, ledger |-> rows]
  ELSE
    LET afterRpc == IF out.rpc = "lost" THEN RpcGeofenceLog(rows, RpcRow(p))
                    ELSE rows
    IN IF out.ins = "ok" /\ ~InsertRefused(afterRpc, InsertRow(p))
       THEN [ok |-> TRUE, ledger |-> AddRow(afterRpc, InsertRow(p))]
       ELSE [ok |-> FALSE, ledger |-> afterRpc]

\* ------------------------------------------------------------------- queue
enqueue(q, p) == Append(q, p)

\* flushOnce(deliver): deliver the queued records in insertion order, drop
\* each delivered one, stop at the first failure.  outs[i] is the outcome
\* the i-th delivery meets.
RECURSIVE flushOnce(_, _, _, _)
flushOnce(q, rows, outs, tried) ==
  IF q = <<>> THEN [queue |-> q, ledger |-> rows, attempts |-> tried]
  ELSE LET r == postToServer(Head(q), rows, Head(outs))
           a == [rec |-> Head(q), ok |-> r.ok, via |-> "flush",
                 had |-> HasIdem(rows, Head(q).idem)]
       IN IF r.ok
          THEN flushOnce(Tail(q), r.ledger, Tail(outs), Append(tried, a))
          ELSE [queue |-> q, ledger |-> r.ledger,
                attempts |-> Append(tried, a)]

\* ------------------------------------------------------------- environment
\* outcomes a delivery can meet: only success once the network is stable
PostOutcomes == IF stable THEN {OkOutcome} ELSE Outcomes

\* outcomes for the deliveries of one flush pass over n records (a throwing
\* rpc acts as FailOutcome does); after a delivery that is certain to fail
\* the pass has stopped, so the rest is fixed
FlushOutcomes(n) ==
  { o \in [1..n -> {x \in PostOutcomes : x.rpc # "throw"}] :
      \A i \in 1..n : \A j \in 1..(i - 1) :
        o[j].ins = "error" /\ o[j].rpc # "ok" => o[i] = FailOutcome }

\* ----------------------------------------------------------------- actions
Init ==
  /\ now = 0
  /\ metaKey = NoMeta
  /\ legacyKey = Null
  /\ lastKey = NoLast
  /\ queue = <<>>
  /\ started = FALSE
  /\ region = Null
  /\ ledger = NoRows
  /\ stable = FALSE
  /\ log = <<>>
  /\ attempts = <<>>
  /\ expired = FALSE
  /\ derived = <<>>
  /\ disarmed = FALSE
  /\ lastSet = NoCall
  /\ inflight = NoFlight

\* the clock advances by step, up to max
Tick(step, max) ==
  /\ now + step <= max
  /\ now' = now + step
  /\ attempts' = <<>>
  /\ UNCHANGED <<metaKey, legacyKey, lastKey, queue, started, region, ledger,
                 stable, log, expired, derived, disarmed,
                 lastSet, inflight>>

\* the network recovers and deliveries succeed from now on
Recover ==
  /\ ~stable
  /\ stable' = TRUE
  /\ UNCHANGED <<now, metaKey, legacyKey, lastKey, queue, started, region,
                 ledger, log, attempts, expired, derived, disarmed,
                 lastSet, inflight>>

\* mutation: a failed delivery is not enqueued, only the old queue is flushed
deliverOrQueueDrop(payload, q, rows, out, outs) ==
  LET post == postToServer(payload, rows, out)
      direct == <<[rec |-> payload, ok |-> post.ok, via |-> "direct",
                   had |-> HasIdem(rows, payload.idem)]>>
  IN IF post.ok
     THEN [queue |-> q, ledger |-> post.ledger, attempts |-> direct]
     ELSE flushOnce(q, post.ledger, outs, direct)

\* mutation: a failed delivery is put at the head of the queue
deliverOrQueueFront(payload, q, rows, out, outs) ==
  LET post == postToServer(payload, rows, out)
      direct == <<[rec |-> payload, ok |-> post.ok, via |-> "direct",
                   had |-> HasIdem(rows, payload.idem)]>>
  IN IF post.ok
     THEN [queue |-> q, ledger |-> post.ledger, attempts |-> direct]
     ELSE flushOnce(<<payload>> \o q, post.ledger, outs, direct)

\* The handler's delivery step: post the payload; on failure enqueue it and
\* flush once.
deliverOrQueue(payload, q, rows, out, outs) ==
  LET post == postToServer(payload, rows, out)
      direct == <<[rec |-> payload, ok |-> post.ok, via |-> "direct",
                   had |-> HasIdem(rows, payload.idem)]>>
  IN IF post.ok
     THEN [queue |-> q, ledger |-> post.ledger, attempts |-> direct]
     ELSE flushOnce(enqueue(q, payload), post.ledger, outs, direct)

\* direction of a signal: unrecognised event types count as ENTER
DirOf(eventType) ==
  IF eventType = "Enter" THEN "ENTER"
  ELSE IF eventType = "Exit" THEN "EXIT" ELSE "ENTER"

\* mutation: the id parsed from the region identifier is not trimmed
ResolveEventIdNoTrim(activeId, regionId) ==
  IF ~Truthy(activeId) /\ Truthy(regionId) /\ StartsWith(regionId, EventPrefix)
  THEN LET parsed == Slice(regionId, Len(EventPrefix))
       IN IF Truthy(parsed) THEN parsed ELSE Null
  ELSE activeId

\* the event id the handler resolves: the active event, else the id embedded
\* in the region identifier, else Null
ResolveEventId(activeId, regionId) ==
  IF ~Truthy(activeId) /\ Truthy(regionId) /\ StartsWith(regionId, EventPrefix)
  THEN LET parsed == Trim(Slice(regionId, Len(EventPrefix)))
       IN IF Truthy(parsed) THEN parsed ELSE Null
  ELSE activeId

BuildPayload(eventId, regionId, dir, at) ==
  [event_id |-> eventId, dir |-> dir, at |-> at, region_id |-> regionId,
   idem |-> makeIdem(eventId, regionId, dir, at)]

\* the log keeps the latest `keep` invocations; n numbers them
Handled == IF log = <<>> THEN 0 ELSE log[Len(log)].n

LogEntry(dir, at, o, res) ==
  [n |-> Handled + 1, dir |-> dir, at |-> at, out |-> o, resolvable |-> res]

Logged(keep, e) ==
  LET l == Append(log, e)
  IN IF Len(l) > keep THEN SubSeq(l, Len(l) - keep + 1, Len(l)) ELSE l

\* mutation: the error is looked at after the debounce check
OnTransitionErrorMarks(cap, keep) ==
  /\ Handled < cap
  /\ log' = Logged(keep, LogEntry("ENTER", now, "error", FALSE))
  /\ attempts' = <<>>
  /\ lastKey' = shouldDebounce(lastKey, "ENTER", now).lastKey
  /\ UNCHANGED <<now, metaKey, legacyKey, queue, started, region,
                 ledger, stable, expired, derived, disarmed,
                 lastSet, inflight>>

\* The task handler called with a platform error.
OnTransitionError(cap, keep) ==
  /\ Handled < cap
  /\ log' = Logged(keep, LogEntry("ENTER", now, "error", FALSE))
  /\ attempts' = <<>>
  /\ UNCHANGED <<now, metaKey, legacyKey, lastKey, queue, started, region,
                 ledger, stable, expired, derived, disarmed,
                 lastSet, inflight>>

\* The task handler called with a geofencing event.
OnTransition(cap, keep, eventType, regionId, out, outs, plat) ==
  LET dir == DirOf(eventType)
      db == shouldDebounce(lastKey, dir, now)
      at == now
      g == getActiveEventId(metaKey, legacyKey, started, now, plat)
      eventId == ResolveEventId(g.id, regionId)
      payload == BuildPayload(eventId, regionId, dir, at)
      dq == deliverOrQueue(payload, queue, ledger, out, outs)
  IN
  /\ Handled < cap
  /\ IF db.suppress
     THEN /\ log' = Logged(keep, LogEntry(dir, at, "debounced", Truthy(eventId)))
          /\ attempts' = <<>>
          /\ lastKey' = db.lastKey
          /\ UNCHANGED <<metaKey, legacyKey, started, region, queue,
                         ledger, expired>>
     ELSE
       /\ lastKey' = db.lastKey
       /\ metaKey' = g.metaKey
       /\ legacyKey' = g.legacyKey
       /\ started' = g.started
       /\ region' = IF g.started THEN region ELSE Null
       /\ expired' = (expired \/ g.expired)
       /\ IF ~Truthy(eventId)
          THEN /\ log' = Logged(keep, LogEntry(dir, at, "unresolved", FALSE))
               /\ attempts' = <<>>
               /\ UNCHANGED <<queue, ledger>>
          ELSE /\ log' = Logged(keep, LogEntry(dir, at, "record", TRUE))
               /\ dq.attempts[1].ok \/ Len(queue) < MaxQueue
               /\ attempts' = dq.attempts
               /\ ledger' = dq.ledger
               /\ queue' = dq.queue
  /\ UNCHANGED <<now, stable, derived, disarmed, lastSet,
                 inflight>>

\* mutation: a task that is already started keeps the region it has
startGeofencingKeepsRegion(ident, perm, plat, outs) ==
  LET st1 == IF plat.has /\ started /\ plat.stop THEN FALSE ELSE started
      fl == flushOnce(queue, ledger, outs, <<>>)
  IN IF ~perm
     THEN [ok |-> FALSE, started |-> started, region |-> region,
           queue |-> queue, ledger |-> ledger, attempts |-> <<>>]
     ELSE IF ~plat.start
     THEN [ok |-> FALSE, started |-> st1,
           region |-> IF st1 THEN region ELSE Null,
           queue |-> queue, ledger |-> ledger, attempts |-> <<>>]
     ELSE [ok |-> TRUE, started |-> TRUE,
           region |-> IF started THEN region ELSE ident,
           queue |-> fl.queue, ledger |-> fl.ledger, attempts |-> fl.attempts]

\* mutation: the queue is not flushed after the region is registered
startGeofencingNoFlush(ident, perm, plat, outs) ==
  LET st1 == IF plat.has /\ started /\ plat.stop THEN FALSE ELSE started
  IN IF ~perm
     THEN [ok |-> FALSE, started |-> started, region |-> region,
           queue |-> queue, ledger |-> ledger, attempts |-> <<>>]
     ELSE IF ~plat.start
     THEN [ok |-> FALSE, started |-> st1,
           region |-> IF st1 THEN region ELSE Null,
           queue |-> queue, ledger |-> ledger, attempts |-> <<>>]
     ELSE [ok |-> TRUE, started |-> TRUE, region |-> ident,
           queue |-> queue, ledger |-> ledger, attempts |-> <<>>]

\* startGeofencing(regions): whether it returned normally, and what it left.
startGeofencing(ident, perm, plat, outs) ==
  LET st1 == IF plat.has /\ started /\ plat.stop THEN FALSE ELSE started
      fl == flushOnce(queue, ledger, outs, <<>>)
  IN IF ~perm
     THEN [ok |-> FALSE, started |-> started, region |-> region,
           queue |-> queue, ledger |-> ledger, attempts |-> <<>>]
     ELSE IF ~plat.start
     THEN [ok |-> FALSE, started |-> st1,
           region |-> IF st1 THEN region ELSE Null,
           queue |-> queue, ledger |-> ledger, attempts |-> <<>>]
     ELSE [ok |-> TRUE, started |-> TRUE, region |-> ident,
           queue |-> fl.queue, ledger |-> fl.ledger, attempts |-> fl.attempts]

\* mutation: the task is taken to be stopped whatever the platform answers
stopGeofencingAssumesStopped(plat) == FALSE

\* stopGeofencing(): whether the task is still registered afterwards.
stopGeofencing(plat) ==
  IF plat.has /\ started /\ plat.stop THEN FALSE ELSE started

\* arm: register the region, then persist the active event.
Arm(eventId, endUtc, ident, perm, plat, outs) ==
  LET sg == startGeofencing(ident, perm, plat, outs)
      ctx == setActiveEventMeta(eventId, endUtc)
  IN /\ started' = sg.started
     /\ region' = sg.region
     /\ queue' = sg.queue
     /\ ledger' = sg.ledger
     /\ attempts' = sg.attempts
     /\ IF sg.ok
        THEN /\ metaKey' = ctx.metaKey
             /\ legacyKey' = ctx.legacyKey
             /\ expired' = (expired /\ ~ctx.metaKey.present)
        ELSE UNCHANGED <<metaKey, legacyKey, expired>>
     /\ disarmed' = FALSE
     /\ UNCHANGED <<lastSet, inflight>>
     /\ UNCHANGED <<now, lastKey, stable, log, derived>>

\* disarm: best-effort unregister, then clear the active event.
Disarm(plat) ==
  LET st == stopGeofencing(plat)
  IN /\ started' = st
     /\ region' = IF st THEN region ELSE Null
     /\ metaKey' = clearActiveEventMeta.metaKey
     /\ legacyKey' = clearActiveEventMeta.legacyKey
     /\ attempts' = <<>>
     /\ disarmed' = TRUE
     /\ UNCHANGED <<lastSet, inflight>>
     /\ UNCHANGED <<now, lastKey, queue, ledger, stable, log, expired, derived>>

\* the handler's calls that can fail are made only on some paths: the
\* platform's stop when the active event has expired, the direct delivery
\* when an event was resolved, the flush when the direct delivery failed
WouldExpire ==
  getActiveEventId(metaKey, legacyKey, started, now, PlatformOk).expired

Handle(cap, keep, types, regions) ==
  \E eventType \in types, regionId \in regions :
    LET dir == DirOf(eventType)
        sup == shouldDebounce(lastKey, dir, now).suppress
        g == getActiveEventId(metaKey, legacyKey, started, now, PlatformOk)
        eventId == ResolveEventId(g.id, regionId)
        delivers == ~sup /\ Truthy(eventId)
        payload == BuildPayload(eventId, regionId, dir, now)
    IN \E plat \in IF ~sup /\ WouldExpire /\ started
                   THEN StopResults ELSE {PlatformOk} :
         \E out \in IF delivers THEN PostOutcomes ELSE {OkOutcome} :
           \E outs \in IF delivers /\ ~postToServer(payload, ledger, out).ok
                       THEN FlushOutcomes(Len(queue) + 1)
                       ELSE {[i \in 1..(Len(queue) + 1) |-> OkOutcome]} :
             OnTransition(cap, keep, eventType, regionId, out, outs, plat)

ArmOk(reqs) ==
  \E req \in reqs, ident \in ArmRegionIds :
    \E plat \in IF started THEN {r \in StopResults : r.has}
                  ELSE {PlatformOk} :
      \E outs \in FlushOutcomes(Len(queue)) :
        Arm(req.eventId, req.endUtc, ident, TRUE, plat, outs)

\* a failing arm: permission refused (the platform is not called), or the
\* platform refuses to start
ArmFail(reqs) ==
  \E ident \in ArmRegionIds, perm \in BOOLEAN,
     plat \in IF started THEN PlatformResults
              ELSE {r \in PlatformResults : r.has /\ r.stop} :
    /\ (~perm /\ plat = PlatformOk) \/ (perm /\ ~plat.start)
    /\ LET req == CHOOSE r \in reqs : TRUE
       IN Arm(req.eventId, req.endUtc, ident, perm, plat, <<>>)

DisarmAny ==
  \E plat \in IF started THEN StopResults ELSE {PlatformOk} : Disarm(plat)

\* The engine under every delivery and platform outcome.
Next ==
  \/ Tick(CoarseStep, MaxCoarse)
  \/ OnTransitionError(MaxHandled, 1)
  \/ Handle(MaxHandled, 1, KnownEventTypes, RegionIds)
  \/ ArmOk(ArmRequests)
  \/ ArmFail(ArmRequests)
  \/ DisarmAny

Spec == Init /\ [][Next]_vars

\* The engine with a working network and a longer signal history.
InitDebounce ==
  /\ now = 0
  /\ metaKey = NoMeta
  /\ legacyKey = Null
  /\ lastKey = NoLast
  /\ queue = <<>>
  /\ started = FALSE
  /\ region = Null
  /\ ledger = NoRows
  /\ stable = TRUE
  /\ log = <<>>
  /\ attempts = <<>>
  /\ expired = FALSE
  /\ derived = <<>>
  /\ disarmed = FALSE
  /\ lastSet = NoCall
  /\ inflight = NoFlight

NextDebounce ==
  \/ Tick(TickStep, MaxTime)
  \/ OnTransitionError(MaxSignals, MaxSignals)
  \/ Handle(MaxSignals, MaxSignals, EventTypes, RegionIds)
  \/ ArmOk(PlainRequests)
  \/ DisarmAny

SpecDebounce == InitDebounce /\ [][NextDebounce]_vars

\* ------------------------------------------------------------ claim helpers
Range(f) == {f[i] : i \in DOMAIN f}
LastLog == log[Len(log)]

\* a step of the task handler on a geofencing event or error
HandlerStep == Handled' = Handled + 1

\* the latest handler invocation built a record
BuiltRecord == attempts # <<>> /\ attempts[1].via = "direct"

\* getActiveEventId() would return absent in this state
ActiveAbsent ==
  getActiveEventId(metaKey, legacyKey, started, now, PlatformOk).id = Null

\* the region identifier carries non-blank text after "event:"
ParseableRegion(r) ==
  /\ Truthy(r)
  /\ StartsWith(r, EventPrefix)
  /\ \E i \in (Len(EventPrefix) + 1)..Len(r) : r[i] # " "

\* every record held anywhere: queued, sent, or on the server
AllRecords ==
  Range(queue) \cup {a.rec : a \in Range(attempts)}
  \cup {row.rec : row \in BagToSet(ledger)}

ResolvedId(id) ==
  /\ id # Null
  /\ id # <<>>
  /\ \E i \in 1..Len(id) : id[i] # " "

\* C1: a handler invocation that finds no active event and no parseable
\* event id in the region identifier builds no record, attempts no delivery
\* and leaves the queue and the server alone; no record anywhere carries an
\* empty or unresolved event id.
C1_NoNullEvent ==
  /\ [][ (HandlerStep /\ ActiveAbsent) =>
           \/ attempts' = <<>> /\ queue' = queue /\ ledger' = ledger
           \/ (BuiltRecord)' /\ ParseableRegion(attempts'[1].rec.region_id) ]_vars
  /\ [](\A p \in AllRecords : ResolvedId(p.event_id))

\* an invocation that passed the debounce check, found nothing to resolve
\* and returned without a record
W_C1 ==
  /\ log # <<>>
  /\ LastLog.out = "unresolved"
  /\ attempts = <<>>
  /\ metaKey = NoMeta

\* rows of the server that belong to the record key idem
Effects(idem) ==
  {row \in BagToSet(ledger) : row.rec.idem = idem}

\* C2: whatever deliveries were attempted (direct, flush, rpc or fallback
\* insert), the server holds at most one effect per idempotency key.
C2_OneEffectPerIdem ==
  \A row \in BagToSet(ledger) :
    /\ CopiesIn(row, ledger) = 1
    /\ Effects(row.rec.idem) = {row}

\* a record was delivered successfully although the server already held it
W_C2 ==
  \E i \in DOMAIN attempts :
    /\ attempts[i].ok
    /\ attempts[i].had
    /\ Cardinality(Effects(attempts[i].rec.idem)) = 1

\* C4: when the handler returns for a transition that passed the debounce
\* check and resolved an event: a successful delivery is the only attempt,
\* leaves the queue unchanged and the record on the server; a failed delivery
\* leaves the record in the queue (appended to it when every attempt of the
\* invocation failed) unless the flush that followed delivered it.
C4_DeliverOrEnqueue ==
  [][ (HandlerStep /\ (BuiltRecord)') =>
        LET a == attempts'[1]
        IN /\ a.ok => /\ Len(attempts') = 1
                      /\ queue' = queue
                      /\ HasIdem(ledger', a.rec.idem)
           /\ ~a.ok => /\ \/ a.rec \in Range(queue')
                          \/ HasIdem(ledger', a.rec.idem)
                       /\ (\A b \in Range(attempts') : ~b.ok)
                            => queue' = Append(queue, a.rec) ]_vars

\* the delivery failed, and so did the flush: the record is the whole queue
W_C4 ==
  /\ BuiltRecord
  /\ \A b \in Range(attempts) : ~b.ok
  /\ queue = <<attempts[1].rec>>

\* the stored meta has a known end time that has passed
MetaExpired ==
  /\ metaKey.present
  /\ parseUtcMs(metaKey.end) # NullIso
  /\ now > parseUtcMs(metaKey.end)

\* a handler step that went past the debounce check
PassedDebounce == HandlerStep /\ (LastLog)'.out \in {"unresolved", "record"}

FlushPass(tried) == SelectSeq(tried, LAMBDA a : a.via = "flush")

\* the queue a flush pass of this step started from
PassStart ==
  IF attempts' # <<>> /\ attempts'[1].via = "direct"
  THEN Append(queue, attempts'[1].rec)
  ELSE queue

\* C10: a flush pass attempts the queued records in insertion order, goes on
\* to the next record only after a successful delivery, stops at the first
\* failure, and removes exactly the records it delivered.
C10_FlushInOrder ==
  [][ LET pass == FlushPass(attempts')
          n == Len(pass)
          okCount == Cardinality({i \in 1..n : pass[i].ok})
      IN (n > 0) =>
           /\ n <= Len(PassStart)
           /\ \A i \in 1..n : pass[i].rec = PassStart[i]
           /\ \A i \in 1..(n - 1) : pass[i].ok
           /\ \A i \in 1..n :
                pass[i].ok => HasIdem(ledger', pass[i].rec.idem)
           /\ queue' = SubSeq(PassStart, okCount + 1, Len(PassStart))
           /\ ~pass[n].ok \/ n = Len(PassStart) ]_vars

\* a pass over two records: the first delivered and removed, the second
\* failed and kept
W_C10 ==
  LET pass == FlushPass(attempts)
  IN /\ Len(pass) = 2
     /\ pass[1].ok
     /\ ~pass[2].ok
     /\ queue = <<pass[2].rec>>
     /\ pass[1].rec # pass[2].rec

\* --------------------------------------------------- debounce properties
\* invocations that reached the debouncer (a platform error returns before)
Signals == {i \in DOMAIN log : log[i].out # "error"}

\* an event could be resolved at every signal from the i-th to the j-th
ResolvableThroughout(i, j) ==
  \A k \in Signals : (i <= k /\ k <= j) => log[k].resolvable

\* records produced by the i-th and the j-th invocation
RecordsOfPair(i, j) == Cardinality({k \in {i, j} : log[k].out = "record"})

NoOppositeBetween(i, j) ==
  \A k \in Signals : (i < k /\ k < j) => log[k].dir = log[i].dir

PrevSignal(j) ==
  LET before == {i \in Signals : i < j}
  IN IF before = {} THEN 0
     ELSE CHOOSE i \in before : \A k \in before : k <= i

DeriveEventIds == {E1, E2}
DeriveRegionIds == {Null, StrNull, EventPrefix \o E1}
DeriveArgs ==
  [eventId : DeriveEventIds, regionId : DeriveRegionIds,
   dir : {"ENTER", "EXIT"}, at : Times]

\* the calls to make: MaxDerived argument tuples, no key derived yet
InitIdem ==
  /\ now = 0
  /\ metaKey = NoMeta
  /\ legacyKey = Null
  /\ lastKey = NoLast
  /\ queue = <<>>
  /\ started = FALSE
  /\ region = Null
  /\ ledger = NoRows
  /\ stable = TRUE
  /\ log = <<>>
  /\ attempts = <<>>
  /\ expired = FALSE
  /\ derived \in [1..MaxDerived -> [args : DeriveArgs, idem : {Null}]]
  /\ disarmed = FALSE
  /\ lastSet = NoCall
  /\ inflight = NoFlight

\* the next call of makeIdem
Derive ==
  \E i \in DOMAIN derived :
    /\ derived[i].idem = Null
    /\ \A k \in 1..(i - 1) : derived[k].idem # Null
    /\ derived' =
         [derived EXCEPT ![i].idem =
            makeIdem(derived[i].args.eventId, derived[i].args.regionId,
                     derived[i].args.dir, derived[i].args.at)]
    /\ UNCHANGED <<now, metaKey, legacyKey, lastKey, queue, started, region,
                   ledger, stable, log, attempts, expired, disarmed,
                 lastSet, inflight>>

NextIdem == Derive

SpecIdem == InitIdem /\ [][NextIdem]_vars

Slot(at) == at \div DEBOUNCE_SEC

\* equal event id, region id (absent is not any string), direction and slot
SameKeyArgs(a, b) ==
  /\ a.eventId = b.eventId
  /\ a.regionId = b.regionId
  /\ a.dir = b.dir
  /\ Slot(a.at) = Slot(b.at)

\* C7 as claimed: two calls return the same key exactly when they agree on
\* event id, region id (absent or present), direction and time slot.
C7_Original ==
  \A i \in DOMAIN derived, j \in DOMAIN derived :
    (derived[i].idem # Null /\ derived[j].idem # Null) =>
      (SameKeyArgs(derived[i].args, derived[j].args)
         <=> derived[i].idem = derived[j].idem)

\* ---------------------------------------------------------------- recovery
\* The engine with a network that recovers, deliveries succeeding from then
\* on, and arms that keep being made.
NextLive ==
  \/ Tick(CoarseStep, MaxCoarse)
  \/ Handle(MaxHandled, 1, KnownEventTypes, ArmRegionIds)
  \/ ArmOk(PlainRequests)
  \/ DisarmAny
  \/ Recover

LiveSpec ==
  /\ Init
  /\ [][NextLive]_vars
  /\ WF_vars(Recover)
  /\ WF_vars(ArmOk(PlainRequests))

\* the records the handler can build
LiveRecords ==
  { BuildPayload(E1, r, d, t) :
      r \in ArmRegionIds, d \in {"ENTER", "EXIT"},
      t \in {x \in 0..MaxCoarse : x % CoarseStep = 0} }

\* the handler built record p in the step that led here
JustBuilt(p) == BuiltRecord /\ attempts[1].rec = p

QueueAfterEnqueue ==
  IF (BuiltRecord)' /\ ~attempts'[1].ok
  THEN Append(queue, attempts'[1].rec)
  ELSE queue

\* C11: no step removes an undelivered record from the queue: what a step
\* leaves is the queue it started from (with the record it enqueued, if
\* any) less a prefix of records that each had a successful delivery
\* attempt in this step; the records that remain keep their insertion order.
C11_QueueKeepsUndelivered ==
  [][ LET start == QueueAfterEnqueue
          removed == Len(start) - Len(queue')
      IN /\ removed >= 0
         /\ queue' = SubSeq(start, removed + 1, Len(start))
         /\ \A i \in 1..removed :
              \E a \in Range(attempts') : a.rec = start[i] /\ a.ok ]_vars

\* two records queued one after the other, no delivery of either succeeded:
\* both are still there, the older one first
W_C11 ==
  /\ Len(queue) = 2
  /\ Len(attempts) = 2
  /\ \A a \in Range(attempts) : ~a.ok
  /\ queue[1] = attempts[2].rec
  /\ queue[2] = attempts[1].rec
  /\ queue[1] # queue[2]

\* ------------------------------------------------------ handler boundary
\* The task handler called with a geofencing event, Crypto.digestStringAsync
\* rejecting: the invocation runs as far as makeIdem, whose rejection
\* nothing catches, so the handler's promise rejects.  (An invocation that
\* is suppressed or resolves no event never calls makeIdem.)
OnTransitionDigestRejects(cap, keep, eventType, regionId, plat) ==
  LET dir == DirOf(eventType)
      db == shouldDebounce(lastKey, dir, now)
      g == getActiveEventId(metaKey, legacyKey, started, now, plat)
      eventId == ResolveEventId(g.id, regionId)
  IN /\ Handled < cap
     /\ ~db.suppress
     /\ Truthy(eventId)
     /\ lastKey' = db.lastKey
     /\ metaKey' = g.metaKey
     /\ legacyKey' = g.legacyKey
     /\ started' = g.started
     /\ region' = IF g.started THEN region ELSE Null
     /\ expired' = (expired \/ g.expired)
     /\ log' = Logged(keep, LogEntry(dir, now, "threw", TRUE))
     /\ attempts' = <<>>
     /\ UNCHANGED <<now, queue, ledger, stable, derived, disarmed, lastSet,
                   inflight>>

HandleDigestRejects(cap, keep, types, regions) ==
  \E eventType \in types, regionId \in regions :
    \E plat \in IF WouldExpire /\ started THEN StopResults ELSE {PlatformOk} :
      OnTransitionDigestRejects(cap, keep, eventType, regionId, plat)

\* The engine with a working network and a digest that can reject.
NextFaults ==
  \/ Tick(CoarseStep, MaxCoarse)
  \/ OnTransitionError(MaxHandled, MaxHandled)
  \/ Handle(MaxHandled, MaxHandled, KnownEventTypes, RegionIds)
  \/ HandleDigestRejects(MaxHandled, MaxHandled, KnownEventTypes, RegionIds)
  \/ ArmOk(PlainRequests)
  \/ DisarmAny

SpecFaults == InitDebounce /\ [][NextFaults]_vars

\* C12 as claimed: whatever fails, key derivation included, every handler
\* invocation returns normally.
C12_Original ==
  \A i \in DOMAIN log : log[i].out # "threw"

\* ------------------------------------------------------------ arm, disarm
\* C13 as claimed: an arm that fails (permission refused, or the platform
\* refuses to register) leaves the registration and the persisted context
\* exactly as they were; an arm that succeeds leaves the new region
\* registered and, for a non-blank event id, the context persisted.
C13_Original ==
  [][ /\ ArmFail(ArmRequests) =>
           UNCHANGED <<started, region, metaKey, legacyKey>>
      /\ ArmOk(ArmRequests) =>
           /\ started'
           /\ region' \in ArmRegionIds
           /\ (metaKey'.present \/ legacyKey' = Null) ]_vars

C15_Original ==
  [][ (HandlerStep /\ disarmed) =>
        /\ (LastLog)'.out # "record"
        /\ attempts' = <<>>
        /\ queue' = queue
        /\ ledger' = ledger ]_vars

\* --------------------------------------------------------------- re-arming
\* region identifiers of two events
RearmRegionIds == {EventPrefix \o E1, EventPrefix \o E2}

\* a successful arm for one of the regions idents
ArmOkAt(reqs, idents) ==
  \E req \in reqs, ident \in idents :
    \E plat \in IF started THEN {r \in StopResults : r.has}
                  ELSE {PlatformOk} :
      \E outs \in FlushOutcomes(Len(queue)) :
        Arm(req.eventId, req.endUtc, ident, TRUE, plat, outs)

\* The engine armed for one event, then for another.
NextRearm ==
  \/ Tick(CoarseStep, MaxCoarse)
  \/ Handle(MaxHandled, 1, KnownEventTypes, ArmRegionIds)
  \/ ArmOkAt(PlainRequests, RearmRegionIds)
  \/ ArmFail(PlainRequests)
  \/ DisarmAny

SpecRearm == Init /\ [][NextRearm]_vars

ContextIds == {E1, PaddedE1, E2, BlankId, <<>>}
ContextEnds == {NullIso, BadIso, 30}
BlankIds == {id \in ContextIds \cup {Null} : ~Truthy(Trim(id))}
\* whether AsyncStorage's call on the meta key, and the one on the legacy
\* key, succeed; a failed call is swallowed and leaves the key as it was
StoreResults == [meta : BOOLEAN, legacy : BOOLEAN]
StoreOk == [meta |-> TRUE, legacy |-> TRUE]

\* the two keys after the storage calls that produce r
Stored(r, w) ==
  /\ metaKey' = IF w.meta THEN r.metaKey ELSE metaKey
  /\ legacyKey' = IF w.legacy THEN r.legacyKey ELSE legacyKey

\* a call of setActiveEventMeta({eventId, endUtc})
SetMeta(eventId, endUtc, w) ==
  /\ Stored(setActiveEventMeta(eventId, endUtc), w)
  /\ lastSet' = [eventId |-> eventId, endUtc |-> endUtc, before |-> metaKey]
  /\ UNCHANGED inflight
  /\ expired' = (expired /\ ~metaKey'.present)
  /\ attempts' = <<>>
  /\ UNCHANGED <<now, lastKey, queue, started, region, ledger, stable, log,
                 derived, disarmed>>

\* a call of setActiveEventId(eventId)
SetId(eventId, w) ==
  /\ Stored(setActiveEventId(metaKey, eventId), w)
  /\ lastSet' = [eventId |-> eventId, endUtc |-> NullIso, before |-> metaKey]
  /\ UNCHANGED inflight
  /\ expired' = (expired /\ ~metaKey'.present)
  /\ attempts' = <<>>
  /\ UNCHANGED <<now, lastKey, queue, started, region, ledger, stable, log,
                 derived, disarmed>>

\* a call of getActiveEventId(); on expiry it removes the two keys
ReadId(w) ==
  LET g == getActiveEventId(metaKey, legacyKey, started, now, PlatformOk)
  IN /\ Stored(g, w)
     /\ started' = g.started
     /\ region' = IF g.started THEN region ELSE Null
     /\ expired' = (expired \/ g.expired)
     /\ attempts' = <<>>
     /\ UNCHANGED <<now, lastKey, queue, ledger, stable, log, derived,
                    disarmed, lastSet, inflight>>

SetMetaAny ==
  \E eventId \in ContextIds, endUtc \in ContextEnds, w \in StoreResults :
    SetMeta(eventId, endUtc, w)
SetIdAny ==
  \E eventId \in ContextIds \cup {Null}, w \in StoreResults : SetId(eventId, w)
ReadIdAny == \E w \in StoreResults : ReadId(w)

\* The context's setters and getter called directly, storage calls failing
\* or not.
NextContext ==
  \/ Tick(TickStep, MaxTime)
  \/ SetMetaAny
  \/ SetIdAny
  \/ ReadIdAny

SpecContext == Init /\ [][NextContext]_vars

\* a setter called with a blank id, every storage call succeeding
BlankSetOk ==
  \E eventId \in BlankIds :
    \/ \E endUtc \in ContextEnds : SetMeta(eventId, endUtc, StoreOk)
    \/ SetId(eventId, StoreOk)
\* a setter called with a blank id
BlankSet ==
  \E eventId \in BlankIds, w \in StoreResults :
    \/ \E endUtc \in ContextEnds : SetMeta(eventId, endUtc, w)
    \/ SetId(eventId, w)

\* C17, as claimed: a setter called with an id that is blank after trimming
\* leaves the meta record and the legacy key exactly as they were.
C17_Original == [][ BlankSet => UNCHANGED <<metaKey, legacyKey>> ]_vars

\* C17, amended: a setter called with an id that is blank after trimming
\* clears the context: each of the two keys is removed or, when its removal
\* fails, left as it was, and both are absent when the removals succeed; a
\* call with a non-blank id whose writes succeed leaves the meta record and
\* the legacy key holding the trimmed id.
C17_BlankClears ==
  [][ /\ BlankSetOk => (metaKey' = NoMeta /\ legacyKey' = Null)
      /\ BlankSet => /\ metaKey' \in {NoMeta, metaKey}
                     /\ legacyKey' \in {Null, legacyKey}
      /\ \A eventId \in ContextIds \ BlankIds :
           ( \/ \E endUtc \in ContextEnds : SetMeta(eventId, endUtc, StoreOk)
             \/ SetId(eventId, StoreOk) )
           => /\ metaKey'.present
              /\ metaKey'.event_id = Trim(eventId)
              /\ legacyKey' = Trim(eventId) ]_vars

\* a blank call was made on a stored context and the context is gone
W_C17 ==
  /\ lastSet.eventId = BlankId
  /\ lastSet.before.present
  /\ metaKey = NoMeta
  /\ legacyKey = Null

\* the stored context is for the event id and has an end time that parses
HoldsKnownEnd(id) ==
  /\ metaKey.present
  /\ metaKey.event_id = id
  /\ parseUtcMs(metaKey.end) # NullIso

\* C18, as claimed: when the stored context is for event E and has a known
\* end time, a setter called for E without an end time leaves the stored
\* end time as it was.
C18_Original ==
  [][ \A eventId \in ContextIds \ BlankIds, w \in StoreResults :
        ( /\ HoldsKnownEnd(Trim(eventId))
          /\ SetMeta(eventId, NullIso, w) \/ SetId(eventId, w) )
        => /\ metaKey'.present
           /\ metaKey'.event_id = metaKey.event_id
           /\ metaKey'.end = metaKey.end ]_vars

\* C19: a stored meta record holds a trimmed id that is not blank, a stored
\* legacy key is not blank, and getActiveEventId() returns absent or an id
\* that is not blank, from the meta record or from the legacy key.
C19_NeverBlank ==
  /\ metaKey.present =>
       Truthy(metaKey.event_id) /\ Trim(metaKey.event_id) = metaKey.event_id
  /\ legacyKey # Null => Truthy(Trim(legacyKey))
  /\ LET id == getActiveEventId(metaKey, legacyKey, started, now,
                                PlatformOk).id
     IN id # Null => Truthy(id) /\ Trim(id) = id

\* a padded id was set, the write of the meta record failed and the one of
\* the legacy key succeeded: the getter answers from the legacy key
W_C19 ==
  /\ lastSet.eventId = PaddedE1
  /\ ~metaKey.present
  /\ legacyKey = E1
  /\ getActiveEventId(metaKey, legacyKey, started, now, PlatformOk).id = E1

\* ------------------------------------------------------- direct deliveries
\* why the rpc returned an error: the procedure does not exist, the request
\* did not get through, or the caller is not authorised
ErrorReasons == {"unavailable", "transient", "auth"}
\* results of one postToServer call, with the reason of the rpc's failure
DeliverOutcomes ==
  {[rpc |-> "ok", ins |-> "ok", why |-> "none"]}
    \cup {[rpc |-> "error", ins |-> i, why |-> w] :
            i \in {"ok", "error"}, w \in ErrorReasons}
    \cup {[rpc |-> r, ins |-> "error", why |-> "transient"] :
            r \in {"lost", "throw"}}

\* the records delivered: one per event and direction at the current time
DeliverPayloads ==
  {BuildPayload(id, EventPrefix \o id, dir, now) :
     id \in {E1, E2}, dir \in {"ENTER", "EXIT"}}

\* one call of postToServer(p)
Deliver(p, out) ==
  LET r == postToServer(p, ledger, out)
  IN /\ ledger' = r.ledger
     /\ attempts' = <<[rec |-> p, ok |-> r.ok, via |-> "direct",
                       had |-> HasIdem(ledger, p.idem), why |-> out.why]>>
     /\ UNCHANGED <<now, metaKey, legacyKey, lastKey, queue, started, region,
                    stable, log, expired, derived, disarmed, lastSet,
                    inflight>>

DeliverAny == \E p \in DeliverPayloads, out \in DeliverOutcomes : Deliver(p, out)

\* Records posted one at a time under every outcome of the two server calls.
NextDeliver ==
  \/ Tick(CoarseStep, MaxCoarse)
  \/ DeliverAny

SpecDeliver == Init /\ [][NextDeliver]_vars

\* C20, as claimed: when the rpc fails for a reason other than the procedure
\* being unavailable, no fallback insert is made: postToServer returns false
\* and the record's row is not added.
C20_Original ==
  \A a \in Range(attempts) :
    a.why \in ErrorReasons \ {"unavailable"} =>
      ~a.ok /\ (~a.had => ~HasIdem(ledger, a.rec.idem))

\* ------------------------------------------------------- error signals
\* a step of the task handler on a platform error
ErrorStep == HandlerStep /\ (LastLog)'.out = "error"

\* C21: a handler invocation on a platform error builds no record and makes
\* no delivery attempt, and leaves the debounce marker, the active event's
\* two keys, the queue, the server's rows and the registration as they were.
C21_ErrorSignalNoEffect ==
  [][ ErrorStep =>
        /\ attempts' = <<>>
        /\ UNCHANGED <<lastKey, metaKey, legacyKey, queue, ledger, started,
                       region>> ]_vars

\* an error signal was handled while a marker, a context and a backlog
\* were stored
W_C21 ==
  /\ log # <<>>
  /\ LastLog.out = "error"
  /\ lastKey.present
  /\ metaKey.present
  /\ queue # <<>>

\* ------------------------------------------------------ one armed session
\* an arm for an event without an end time: the session does not expire
SessionRequests == {[eventId |-> E1, endUtc |-> NullIso]}

\* the one arm of the session
SessionArm == ~started /\ ArmOk(SessionRequests)

\* the platform reports a transition of the registered region
SessionHandle ==
  started /\ Handle(MaxSignals, 1, KnownEventTypes, ArmRegionIds)

\* One armed session: the engine is armed once and the platform reports
\* transitions of the registered region while it is.
NextSession ==
  \/ Tick(TickStep, MaxTime)
  \/ SessionArm
  \/ SessionHandle

SpecSession == Init /\ [][NextSession]_vars

\* C22, as claimed: within one armed session the handler's direct delivery
\* of a record does not succeed while an earlier record of the session is
\* still in the queue.
C22_Original ==
  [][ (HandlerStep /\ (BuiltRecord)' /\ attempts'[1].ok) => queue = <<>> ]_vars

\* ------------------------------------------------- the debounce decision
\* the stored marker has direction dir and is less than DEBOUNCE_SEC old
MarkerHit(dir) ==
  lastKey.present /\ lastKey.dir = dir /\ now - lastKey.at < DEBOUNCE_SEC

Callers == {"arm", "handler"}
RaceOutcomes == {OkOutcome, FailOutcome}

\* the records the handler builds: one per direction at the current time
RacePayloads ==
  {BuildPayload(E1, EventPrefix \o E1, dir, now) : dir \in {"ENTER", "EXIT"}}

RECURSIVE RemoveFirst(_, _)
RemoveFirst(q, p) ==
  IF q = <<>> THEN <<>>
  ELSE IF Head(q) = p THEN Tail(q) ELSE <<Head(q)>> \o RemoveFirst(Tail(q), p)

\* caller k moves on with the fields of f replaced
Moved(k, f) ==
  inflight' = [inflight EXCEPT ![k] = f @@ inflight[k]]

RaceFrame ==
  UNCHANGED <<now, metaKey, legacyKey, lastKey, started, region, stable, log,
              attempts, expired, derived, disarmed, lastSet>>

\* the handler has built record p and is about to post it (line 326)
HandlerBegin(cap) ==
  \E p \in RacePayloads :
    /\ inflight.handler.pc = "idle"
    /\ inflight.handler.n < cap
    /\ Moved("handler", [pc |-> "post", rec |-> p,
                         n |-> inflight.handler.n + 1])
    /\ UNCHANGED <<queue, ledger>>
    /\ RaceFrame

\* the handler's direct post (line 326)
HandlerPost ==
  \E out \in RaceOutcomes :
    LET r == postToServer(inflight.handler.rec, ledger, out)
    IN /\ inflight.handler.pc = "post"
       /\ ledger' = r.ledger
       /\ Moved("handler", [pc |-> IF r.ok THEN "done" ELSE "get"])
       /\ UNCHANGED queue
       /\ RaceFrame

\* enqueue reads the stored list
EnqueueGet ==
  /\ inflight.handler.pc = "get"
  /\ Moved("handler", [pc |-> "set", cur |-> queue])
  /\ UNCHANGED <<queue, ledger>>
  /\ RaceFrame

\* enqueue writes the list with the record appended; the handler goes on to
\* its flush (line 329)
EnqueueSet ==
  /\ inflight.handler.pc = "set"
  /\ Len(inflight.handler.cur) < MaxQueue
  /\ queue' = enqueue(inflight.handler.cur, inflight.handler.rec)
  /\ inflight' = [inflight EXCEPT !.handler.pc = "flush",
                                  !.enq = @ \cup {inflight.handler.rec}]
  /\ UNCHANGED ledger
  /\ RaceFrame

\* the handler has returned; the platform may invoke it again
HandlerEnd ==
  /\ inflight.handler.pc = "done"
  /\ Moved("handler", [pc |-> "idle"])
  /\ UNCHANGED <<queue, ledger>>
  /\ RaceFrame

\* startGeofencing has registered the region and calls flushOnce (line 395)
ArmFlushBegin ==
  /\ inflight.arm.pc = "idle"
  /\ inflight.arm.n < 1
  /\ queue # <<>>
  /\ Moved("arm", [pc |-> "flush", n |-> inflight.arm.n + 1])
  /\ UNCHANGED <<queue, ledger>>
  /\ RaceFrame

\* flushOnce reads the stored list
FlushGet(k) ==
  /\ inflight[k].pc = "flush"
  /\ Moved(k, [pc |-> IF queue = <<>> THEN "done" ELSE "deliver",
               list |-> queue])
  /\ UNCHANGED <<queue, ledger>>
  /\ RaceFrame

\* flushOnce posts the oldest record it has not yet delivered
FlushDeliver(k) ==
  \E out \in RaceOutcomes :
    LET r == postToServer(Head(inflight[k].list), ledger, out)
    IN /\ inflight[k].pc = "deliver"
       /\ ledger' = r.ledger
       /\ Moved(k, [pc |-> IF r.ok THEN "reread" ELSE "done"])
       /\ UNCHANGED queue
       /\ RaceFrame

\* flushOnce reads the stored list again to remove the delivered record
FlushReread(k) ==
  /\ inflight[k].pc = "reread"
  /\ Moved(k, [pc |-> "write", cur |-> queue])
  /\ UNCHANGED <<queue, ledger>>
  /\ RaceFrame

\* flushOnce writes the list without the delivered record
FlushPut(k) ==
  LET rest == Tail(inflight[k].list)
  IN /\ inflight[k].pc = "write"
     /\ queue' = RemoveFirst(inflight[k].cur, Head(inflight[k].list))
     /\ Moved(k, [pc |-> IF rest = <<>> THEN "done" ELSE "deliver",
                  list |-> rest])
     /\ UNCHANGED ledger
     /\ RaceFrame

\* The arm's flush in the foreground and handler invocations in the
\* background, each advancing one storage or server call at a time.
NextRace ==
  \/ HandlerBegin(MaxHandled)
  \/ HandlerPost
  \/ EnqueueGet
  \/ EnqueueSet
  \/ HandlerEnd
  \/ ArmFlushBegin
  \/ \E k \in Callers : FlushGet(k)
  \/ \E k \in Callers : FlushDeliver(k)
  \/ \E k \in Callers : FlushReread(k)
  \/ \E k \in Callers : FlushPut(k)

SpecRace == Init /\ [][NextRace]_vars

\* no queue operation is in progress
Quiet == \A k \in Callers : inflight[k].pc \in {"idle", "done"}

\* C24, as claimed: whatever the interleaving of the arm's flush with the
\* handler's enqueue and flush, once they have finished every enqueued
\* record is in the queue or on the server, and the server holds at most
\* one row per idem key.
C24_Original ==
  /\ Quiet =>
       \A p \in inflight.enq :
         p \in Range(queue) \/ HasIdem(ledger, p.idem)
  /\ \A p \in RacePayloads : Cardinality(Effects(p.idem)) <= 1

\* ------------------------------------------------ termination mid-handler
\* The process is terminated while the handler runs, after shouldDebounce
\* has written the marker and before the record is delivered or enqueued.
OnTransitionKilled(cap, keep, eventType, regionId) ==
  LET dir == DirOf(eventType)
      db == shouldDebounce(lastKey, dir, now)
      g == getActiveEventId(metaKey, legacyKey, started, now, PlatformOk)
      eventId == ResolveEventId(g.id, regionId)
  IN /\ Handled < cap
     /\ ~db.suppress
     /\ lastKey' = db.lastKey
     /\ log' = Logged(keep, LogEntry(dir, now, "killed", Truthy(eventId)))
     /\ attempts' = <<>>
     /\ UNCHANGED <<now, metaKey, legacyKey, queue, started, region, ledger,
                    stable, expired, derived, disarmed, lastSet, inflight>>

HandleKilled(cap, keep, types, regions) ==
  \E eventType \in types, regionId \in regions :
    OnTransitionKilled(cap, keep, eventType, regionId)

\* The engine with a working network, the process being terminated during
\* some invocations and the platform invoking the handler again.
NextKill ==
  \/ Tick(TickStep, MaxTime)
  \/ Handle(MaxSignals, MaxSignals, KnownEventTypes, ArmRegionIds)
  \/ HandleKilled(MaxSignals, MaxSignals, KnownEventTypes, ArmRegionIds)
  \/ ArmOk(PlainRequests)

SpecKill == InitDebounce /\ [][NextKill]_vars

\* C26, as claimed: when the process was terminated during an invocation
\* after the marker was written, the next invocation for the same direction,
\* with the event resolvable and the network working, builds and delivers
\* the record.
C26_Original ==
  [][ ( /\ HandlerStep
        /\ log # <<>>
        /\ LastLog.out = "killed"
        /\ LastLog.resolvable
        /\ (LastLog)'.dir = LastLog.dir
        /\ (LastLog)'.out # "killed"
        /\ (LastLog)'.resolvable )
      => /\ (LastLog)'.out = "record"
         /\ (BuiltRecord)'
         /\ attempts'[1].ok ]_vars

\* ------------------------------------------------------- the stored key
\* the key of record p is the one derived from p's own fields and time
KeyFromBuild(p) == p.idem = makeIdem(p.event_id, p.region_id, p.dir, p.at)

\* C27: the key a record carries is the one derived when it was built: the
\* records in the queue, the records of every delivery attempt (direct or
\* flush) and the rows the server received all carry the key derived from
\* the record's own time, whatever the clock reads when they are sent.
C27_IdemFixedAtBuild ==
  /\ \A i \in DOMAIN queue : KeyFromBuild(queue[i])
  /\ \A a \in Range(attempts) : KeyFromBuild(a.rec)
  /\ \A row \in BagToSet(ledger) :
       row.idem = row.rec.idem /\ KeyFromBuild(row.rec)

\* a flush delivered a record in a later time slot than the one it was
\* built in, and the server holds it under the key of its own slot
W_C27 ==
  \E a \in Range(attempts) :
    /\ a.via = "flush"
    /\ a.ok
    /\ Slot(a.rec.at) # Slot(now)
    /\ \E row \in BagToSet(ledger) :
         row.rec = a.rec /\ row.idem = a.rec.idem

\* -------------------------------------------- keys of different records
\* C28, as claimed: a record built by a handler invocation carries a key
\* that no record of an earlier invocation carried: with every delivery
\* succeeding at once, the server never already holds the key of a record
\* that was just built.
C28_Original ==
  [][ (HandlerStep /\ (BuiltRecord)') => ~attempts'[1].had ]_vars

\* C29, as claimed: a signal for which an event is resolvable is suppressed
\* only if a signal of the same direction produced a record less than
\* DEBOUNCE_SEC earlier.
C29_Original ==
  \A j \in DOMAIN log :
    (log[j].out = "debounced" /\ log[j].resolvable) =>
      \E i \in 1..(j - 1) :
        /\ log[i].dir = log[j].dir
        /\ log[i].out = "record"
        /\ log[j].at - log[i].at < DEBOUNCE_SEC

\* C30, as claimed: once the stored end time of the active event has
\* passed, and until an event is set again, no handler invocation builds a
\* record, the invocation that detects the expiry included.
C30_Original ==
  [][ (HandlerStep /\ (MetaExpired \/ expired)) => ~(BuiltRecord)' ]_vars

====
